---- MODULE Spec2Model ----
(***************************************************************************)
(* A model of cloneWebsite (chai-gem-cloner.js): one mirroring job, from   *)
(* the validation of the input URL to the returned manifest.               *)
(*                                                                         *)
(* Strings are TLA+ strings, read character by character with SubSeq, so   *)
(* that path joining, path normalisation, String.startsWith and            *)
(* safeFilename are computed as Node computes them.                        *)
(***************************************************************************)
EXTENDS Integers, Sequences, FiniteSets, TLC

(***************************************************************************)
(* Bounds of the model.                                                    *)
(***************************************************************************)
\* longest document assembled from the element catalogue
MaxElems == 2
\* largest number of distinct images of a document made of images only
MaxImgs == 6
\* the last millisecond of the clock
MaxClock == 4
\* the number of cloneWebsite calls that are started
MaxJobs == 2

(***************************************************************************)
(* Program constants.                                                      *)
(***************************************************************************)
BATCH_SIZE == 5

(***************************************************************************)
(* Strings.                                                                *)
(***************************************************************************)
Char(s, i) == SubSeq(s, i, i)

\* String.prototype.slice(0, n)
Prefix(s, n) == SubSeq(s, 1, IF Len(s) < n THEN Len(s) ELSE n)

StartsWith(s, pre) == Len(s) >= Len(pre) /\ SubSeq(s, 1, Len(pre)) = pre

EndsWith(s, suf) ==
    Len(s) >= Len(suf) /\ SubSeq(s, Len(s) - Len(suf) + 1, Len(s)) = suf

UpperCase == "ABCDEFGHIJKLMNOPQRSTUVWXYZ"
LowerCase == "abcdefghijklmnopqrstuvwxyz"

UpperLetters ==
    { "A", "B", "C", "D", "E", "F", "G", "H", "I", "J", "K", "L", "M",
      "N", "O", "P", "Q", "R", "S", "T", "U", "V", "W", "X", "Y", "Z" }

RECURSIVE IndexOfAny(_, _, _)
\* first index >= i of a character of set, Len(s) + 1 when there is none
IndexOfAny(s, set, i) ==
    IF i > Len(s) THEN Len(s) + 1
    ELSE IF Char(s, i) \in set THEN i ELSE IndexOfAny(s, set, i + 1)

RECURSIVE SplitFrom(_, _, _)
SplitFrom(s, sep, i) ==
    LET j == IndexOfAny(s, {sep}, i) IN
    IF j > Len(s) THEN << SubSeq(s, i, Len(s)) >>
    ELSE << SubSeq(s, i, j - 1) >> \o SplitFrom(s, sep, j + 1)

\* String.prototype.split(sep) for a one-character separator
Split(s, sep) == SplitFrom(s, sep, 1)

RECURSIVE JoinWith(_, _)
\* Array.prototype.join(sep)
JoinWith(segs, sep) ==
    IF Len(segs) = 0 THEN ""
    ELSE IF Len(segs) = 1 THEN segs[1]
    ELSE segs[1] \o sep \o JoinWith(Tail(segs), sep)

RECURSIVE MapChars(_, _, _)
MapChars(s, i, bad) ==
    IF i > Len(s) THEN ""
    ELSE (IF Char(s, i) \in bad THEN "_" ELSE Char(s, i)) \o MapChars(s, i + 1, bad)

LowerChar(c) ==
    IF c \in UpperLetters THEN Char(LowerCase, IndexOfAny(UpperCase, {c}, 1)) ELSE c

RECURSIVE LowerFrom(_, _)
LowerFrom(s, i) ==
    IF i > Len(s) THEN "" ELSE LowerChar(Char(s, i)) \o LowerFrom(s, i + 1)

\* String.prototype.toLowerCase, on ASCII letters
ToLowerCase(s) == LowerFrom(s, 1)

(***************************************************************************)
(* safeFilename: p.replace(/[:?#<>\\|*"]/g, '_')                           *)
(***************************************************************************)
UnsafeChars == {":", "?", "#", "<", ">", "\\", "|", "*", "\""}

safeFilename(p) == MapChars(p, 1, UnsafeChars)

(***************************************************************************)
(* Node's path module (posix), on absolute paths.                          *)
(***************************************************************************)
RECURSIVE NormSegs(_, _)
\* the segments of a path with "", "." dropped and ".." resolved
NormSegs(segs, acc) ==
    IF Len(segs) = 0 THEN acc
    ELSE LET s == Head(segs) IN
         IF s = "" \/ s = "." THEN NormSegs(Tail(segs), acc)
         ELSE IF s = ".."
              THEN NormSegs(Tail(segs),
                            IF Len(acc) = 0 THEN acc ELSE SubSeq(acc, 1, Len(acc) - 1))
              ELSE NormSegs(Tail(segs), Append(acc, s))

PathSegs(p) == NormSegs(Split(p, "/"), << >>)

FromSegs(segs) == "/" \o JoinWith(segs, "/")

\* path.normalize of an absolute path: a trailing separator is kept
PathNormalize(p) ==
    LET segs == PathSegs(p) IN
    IF Len(segs) = 0 THEN "/"
    ELSE IF EndsWith(p, "/") THEN FromSegs(segs) \o "/" ELSE FromSegs(segs)

\* path.join(a, b), b not empty
PathJoin(a, b) == PathNormalize(a \o "/" \o b)

\* path.resolve(p) of an absolute path: normalised, no trailing separator
PathResolve(p) == FromSegs(PathSegs(p))

\* path.dirname(p)
PathDirname(p) ==
    LET segs == PathSegs(p) IN
    IF Len(segs) <= 1 THEN "/" ELSE FromSegs(SubSeq(segs, 1, Len(segs) - 1))

RECURSIVE CommonLen(_, _)
CommonLen(a, b) ==
    IF Len(a) = 0 \/ Len(b) = 0 \/ Head(a) # Head(b) THEN 0
    ELSE 1 + CommonLen(Tail(a), Tail(b))

\* path.relative(from, to).split(path.sep).join('/')
PathRelative(from, to) ==
    LET f == PathSegs(from)
        t == PathSegs(to)
        c == CommonLen(f, t)
    IN JoinWith([i \in 1..(Len(f) - c) |-> ".."] \o SubSeq(t, c + 1, Len(t)), "/")

\* the directories path.dirname(p) and above: what mkdir -p creates
Ancestors(p) ==
    LET segs == PathSegs(p) IN { FromSegs(SubSeq(segs, 1, k)) : k \in 0..(Len(segs) - 1) }

\* R followed by a separator and further segments
IsDescendant(p, root) ==
    LET ps == PathSegs(p)
        rs == PathSegs(root)
    IN Len(ps) > Len(rs) /\ SubSeq(ps, 1, Len(rs)) = rs

(***************************************************************************)
(* WHATWG URL, as new URL(input, base) and its href and pathname getters   *)
(* behave on the references of the model: http URLs, data: URLs, and       *)
(* scheme-relative, root-relative and document-relative references.        *)
(***************************************************************************)
NoBase == [scheme |-> "", host |-> "", pathname |-> "", search |-> "", hash |-> ""]

\* the outcome of a constructor call that throws TypeError: Invalid URL
Invalid == [scheme |-> "invalid", host |-> "", pathname |-> "", search |-> "", hash |-> ""]

Contains(s, set) == IndexOfAny(s, set, 1) <= Len(s)

RECURSIVE TrimLeft(_)
TrimLeft(s) == IF Len(s) > 0 /\ Char(s, 1) = " " THEN TrimLeft(SubSeq(s, 2, Len(s))) ELSE s

RECURSIVE TrimRight(_)
TrimRight(s) ==
    IF Len(s) > 0 /\ Char(s, Len(s)) = " " THEN TrimRight(SubSeq(s, 1, Len(s) - 1)) ELSE s

\* String.prototype.trim, on spaces
Trim(s) == TrimRight(TrimLeft(s))

RECURSIVE UrlSegs(_, _)
\* removal of dot segments; empty segments are kept
UrlSegs(segs, acc) ==
    IF Len(segs) = 0 THEN acc
    ELSE LET s    == Head(segs)
             last == Len(segs) = 1
             pop  == IF Len(acc) = 0 THEN acc ELSE SubSeq(acc, 1, Len(acc) - 1)
         IN IF s = ".." THEN UrlSegs(Tail(segs), IF last THEN Append(pop, "") ELSE pop)
            ELSE IF s = "." THEN UrlSegs(Tail(segs), IF last THEN Append(acc, "") ELSE acc)
            ELSE UrlSegs(Tail(segs), Append(acc, s))

\* the pathname of a special URL from the segments after the host
UrlPath(segs) == "/" \o JoinWith(UrlSegs(segs, << >>), "/")

\* code points a host may not hold
ForbiddenHost == {" ", "#", "<", ">", "?", "@", "[", "\\", "]", "^", "|", "%"}

\* path, query and fragment of the text that follows the scheme and host
PathPart(t)   == SubSeq(t, 1, IndexOfAny(t, {"?", "#"}, 1) - 1)
SearchPart(t) ==
    LET q == IndexOfAny(t, {"?", "#"}, 1)
        h == IndexOfAny(t, {"#"}, 1)
    IN IF q <= Len(t) /\ Char(t, q) = "?" /\ h - q > 1 THEN SubSeq(t, q, h - 1) ELSE ""
HashPart(t) ==
    LET h == IndexOfAny(t, {"#"}, 1)
    IN IF h < Len(t) THEN SubSeq(t, h, Len(t)) ELSE ""

\* "//host/path?query#fragment" with the leading slashes removed
WithHost(scheme, t) ==
    LET e    == IndexOfAny(t, {"/", "?", "#"}, 1)
        host == SubSeq(t, 1, e - 1)
        rest == SubSeq(t, e, Len(t))
        p    == PathPart(rest)
    IN IF host = "" \/ Contains(host, ForbiddenHost) THEN Invalid
       ELSE [scheme |-> scheme, host |-> host,
             pathname |-> IF p = "" THEN "/" ELSE UrlPath(Tail(Split(p, "/"))),
             search |-> SearchPart(rest), hash |-> HashPart(rest)]

IsOpaque(u) == u.scheme = "data"

\* new URL(input, base); base = NoBase for the one-argument form
NewURL(input, base) ==
    LET s == Trim(input) IN
    IF ToLowerCase(Prefix(s, 7)) = "http://"
        THEN WithHost("http", SubSeq(s, 8, Len(s)))
    ELSE IF ToLowerCase(Prefix(s, 5)) = "data:"
        THEN LET t == SubSeq(s, 6, Len(s))
             IN [scheme |-> "data", host |-> "", pathname |-> PathPart(t),
                 search |-> SearchPart(t), hash |-> HashPart(t)]
    ELSE IF base = NoBase \/ base = Invalid \/ IsOpaque(base) THEN Invalid
    ELSE IF StartsWith(s, "//") THEN WithHost(base.scheme, SubSeq(s, 3, Len(s)))
    ELSE LET p    == PathPart(s)
             bs   == Tail(Split(base.pathname, "/"))
             dir  == SubSeq(bs, 1, Len(bs) - 1)
             path == IF p = "" THEN base.pathname
                     ELSE IF StartsWith(p, "/") THEN UrlPath(Tail(Split(p, "/")))
                     ELSE UrlPath(dir \o Split(p, "/"))
         IN [scheme |-> base.scheme, host |-> base.host, pathname |-> path,
             search |-> IF p = "" /\ SearchPart(s) = "" THEN base.search ELSE SearchPart(s),
             hash |-> HashPart(s)]

\* url.href
Href(u) ==
    IF IsOpaque(u) THEN u.scheme \o ":" \o u.pathname \o u.search \o u.hash
    ELSE u.scheme \o "://" \o u.host \o u.pathname \o u.search \o u.hash

\* url.origin
Origin(u) == IF IsOpaque(u) THEN "null" ELSE u.scheme \o "://" \o u.host

(***************************************************************************)
(* The origin servers: the text of every stylesheet, as the list of its    *)
(* url(...) occurrences.  Any other resource holds no occurrence.          *)
(***************************************************************************)
CssText(href) ==
    IF href = "http://h/css/s.css"
    THEN << "url(../a.png)", "url('i/')", "url(data:,x)", "url(http://[)",
            "url(DATA:,x)", "url(n.css)" >>
    ELSE IF href = "http://h/css/t.css" THEN << "url(../a.png)" >>
    ELSE IF href = "http://h/css/n.css" THEN << "url(b.png)" >>
    ELSE IF href = "http://h/css//u.css" THEN << "url(/a.png)" >>
    ELSE << >>

\* what a 200 response to href carries
Body(href) == [from |-> href, text |-> CssText(href)]

(***************************************************************************)
(* The documents.  An element is a tag and its attributes.                 *)
(***************************************************************************)
Elem(tag, attrs) == [tag |-> tag, attrs |-> attrs]

ElemCatalogue ==
    << Elem("link",   [rel |-> "stylesheet", href |-> "css/s.css"]),
       Elem("link",   [rel |-> "stylesheet", href |-> "css/t.css"]),
       Elem("link",   [rel |-> "icon", href |-> "a.png"]),
       Elem("img",    [src |-> "a.png"]),
       Elem("img",    [src |-> "http://[", srcset |-> "a.png 1x, b.png 2x"]),
       Elem("img",    [srcset |-> "b.png 1x, http://[ 2x"]),
       Elem("video",  [src |-> "v.mp4", poster |-> "a.png", width |-> "10"]),
       Elem("img",    [src |-> "data:,/../../assets_x/f"]),
       Elem("script", [src |-> "data:,/../../x/f"]),
       Elem("meta",   [name |-> "viewport", content |-> "width=1"]) >>

Digits == "0123456789"

\* a document of n images with n distinct sources
ImgDoc(n) == [k \in 1..n |-> Elem("img", [src |-> Char(Digits, k + 1) \o ".png"])]

\* the ways to pick n elements of the catalogue, in the order of the catalogue
Picks(n) ==
    { f \in [1..n -> 1..Len(ElemCatalogue)] : \A a, b \in 1..n : a <= b => f[a] <= f[b] }

SmallDocs == UNION { { [k \in 1..n |-> ElemCatalogue[f[k]]] : f \in Picks(n) } : n \in 0..MaxElems }

Docs == SmallDocs \cup { ImgDoc(n) : n \in (MaxElems + 1)..MaxImgs }

\* the values of the urlStr argument: empty, unparseable, a page
Inputs == { "", "http://[", "http://h/" }

(***************************************************************************)
(* The environment of the job.                                             *)
(***************************************************************************)
\* process.cwd()
Cwd == "/w"
\* Date.now() at the start of the job
Now == "1"

\* an axios request resolves (2xx) or rejects (network error, timeout, other status)
Responses == { "200", "error" }

(***************************************************************************)
(* The file system: the directories, and the content of every file.        *)
(***************************************************************************)
NoFiles == [p \in {} |-> Body("")]

\* fs.writeFile(p, data) fails when p names a directory
WriteFails(p, drs) == EndsWith(p, "/") \/ PathResolve(p) \in drs

(***************************************************************************)
(* downloadAsset(urlStr, outBaseDir, headers)                              *)
(*   resp: how the request ended;                                          *)
(*   drs, fls: the file system when the response arrives.                  *)
(* The result carries the file system the call leaves behind.              *)
(***************************************************************************)
Failure(urlStr, msg, drs, fls) ==
    [ok |-> FALSE, threw |-> FALSE, url |-> urlStr, outPath |-> "", error |-> msg,
     dirs |-> drs, files |-> fls]

Success(urlStr, outPath, drs, fls) ==
    [ok |-> TRUE, threw |-> FALSE, url |-> urlStr, outPath |-> outPath, error |-> "",
     dirs |-> drs, files |-> fls]

\* a catch clause that lets the exception out
Rethrown(urlStr, msg, drs, fls) == [Failure(urlStr, msg, drs, fls) EXCEPT !.threw = TRUE]

\* the catch clause of downloadAsset
Caught(urlStr, msg, drs, fls) == Failure(urlStr, msg, drs, fls)

\* the security check
PathAllowed(outPath, outBaseDir) ==
    StartsWith(PathResolve(outPath), PathResolve(outBaseDir))

\* lines 48-50: the path below outBaseDir that the URL's pathname names
RelPath(u) ==
    LET name == IF StartsWith(u.pathname, "/")
                THEN SubSeq(u.pathname, 2, Len(u.pathname)) ELSE u.pathname
        rel  == safeFilename(name)
    IN IF rel = "" THEN "index.html" ELSE rel

\* lines 57-59: mkdir -p of the directories in above, then writeFile
MkdirWrite(urlStr, outPath, above, drs, fls) ==
    IF above \cap DOMAIN fls # {} THEN Caught(urlStr, "ENOTDIR", drs, fls)
    ELSE IF WriteFails(outPath, drs \cup above)
         THEN Caught(urlStr, "EISDIR", drs \cup above, fls)
    ELSE Success(urlStr, outPath, drs \cup above,
                 [p \in DOMAIN fls \cup {outPath} |->
                     IF p = outPath THEN Body(urlStr) ELSE fls[p]])

\* lines 52-59: the security check, then the write
CheckedWrite(urlStr, outBaseDir, outPath, drs, fls) ==
    IF ~PathAllowed(outPath, outBaseDir)
    THEN Caught(urlStr, "Path traversal attempt", drs, fls)
    ELSE LET dir == PathDirname(outPath)
         IN MkdirWrite(urlStr, outPath, Ancestors(dir) \cup {dir}, drs, fls)

\* lines 48-59: what downloadAsset does with a 2xx response
SaveResponse(urlStr, outBaseDir, u, drs, fls) ==
    IF u = Invalid THEN Caught(urlStr, "Invalid URL", drs, fls)
    ELSE CheckedWrite(urlStr, outBaseDir, PathJoin(outBaseDir, RelPath(u)), drs, fls)

downloadAsset(urlStr, outBaseDir, resp, drs, fls) ==
    IF resp # "200" THEN Caught(urlStr, "Request failed", drs, fls)
    ELSE SaveResponse(urlStr, outBaseDir, NewURL(urlStr, NoBase), drs, fls)

(***************************************************************************)
(* Discovery: the catalogue of selectors and the scan of the document.     *)
(***************************************************************************)
Sel(tag, attr) == [tag |-> tag, attr |-> attr]

assetSelectors ==
    << Sel("link", "href"), Sel("script", "src"), Sel("img", "src"),
       Sel("img", "srcset"), Sel("source", "src"), Sel("audio", "src"),
       Sel("video", "src"), Sel("video", "poster"), Sel("meta", "content"),
       Sel("object", "data") >>

\* $(selector): the positions of the elements that carry the attribute
Matching(doc, sel) ==
    { k \in 1..Len(doc) : doc[k].tag = sel.tag /\ sel.attr \in DOMAIN doc[k].attrs }

RECURSIVE InOrder(_)
\* a set of positions in document order
InOrder(ks) ==
    IF ks = {} THEN << >>
    ELSE LET k == CHOOSE x \in ks : \A y \in ks : x <= y
         IN << k >> \o InOrder(ks \ {k})

Range(seq) == { seq[k] : k \in 1..Len(seq) }

\* Set.prototype.add on a set kept in insertion order
SetAdd(seq, x) == IF x \in Range(seq) THEN seq ELSE Append(seq, x)

\* part.trim().split(/\s+/)
Tokens(part) ==
    LET t == Trim(part) IN
    IF t = "" THEN << "" >> ELSE SelectSeq(Split(t, " "), LAMBDA w : w # "")

RECURSIVE ScanSrcset(_, _, _)
\* lines 109-112: every entry is resolved, outside of any try
ScanSrcset(parts, base, acc) ==
    IF Len(parts) = 0 \/ acc.threw THEN acc
    ELSE LET url == Tokens(Head(parts))[1]
             u   == NewURL(url, base)
         IN IF url = "" THEN ScanSrcset(Tail(parts), base, acc)
            ELSE IF u = Invalid THEN [acc EXCEPT !.threw = TRUE]
            ELSE ScanSrcset(Tail(parts), base, [acc EXCEPT !.set = SetAdd(@, Href(u))])

\* lines 105-119: one element of one selector
ScanElement(el, attr, base, acc) ==
    LET value == el.attrs[attr] IN
    IF value = "" THEN acc
    ELSE IF attr = "srcset" THEN ScanSrcset(Split(value, ","), base, acc)
    ELSE LET u == NewURL(value, base)
         IN IF u = Invalid THEN acc ELSE [acc EXCEPT !.set = SetAdd(@, Href(u))]

RECURSIVE ScanElements(_, _, _, _, _)
ScanElements(doc, ks, attr, base, acc) ==
    IF Len(ks) = 0 \/ acc.threw THEN acc
    ELSE ScanElements(doc, Tail(ks), attr, base, ScanElement(doc[Head(ks)], attr, base, acc))

RECURSIVE ScanSelectors(_, _, _, _)
ScanSelectors(doc, sels, base, acc) ==
    IF Len(sels) = 0 \/ acc.threw THEN acc
    ELSE ScanSelectors(doc, Tail(sels), base,
            ScanElements(doc, InOrder(Matching(doc, Head(sels))), Head(sels).attr, base, acc))

\* lines 103-121: the asset set, or the exception that leaves the loop
Discover(doc, base) == ScanSelectors(doc, assetSelectors, base, [set |-> << >>, threw |-> FALSE])

(***************************************************************************)
(* HTML rewriting: mapAttr.                                                *)
(***************************************************************************)
\* urlToLocal[key], truthy
Mapped(map, key) == key \in DOMAIN map /\ map[key] # ""

SetAttr(el, attr, v) ==
    [el EXCEPT !.attrs = [a \in DOMAIN el.attrs \cup {attr} |-> IF a = attr THEN v ELSE el.attrs[a]]]

Placeholder(el) ==
    LET width  == IF "width" \in DOMAIN el.attrs /\ el.attrs["width"] # ""
                  THEN el.attrs["width"] ELSE "400"
        height == IF "height" \in DOMAIN el.attrs /\ el.attrs["height"] # ""
                  THEN el.attrs["height"] ELSE "300"
    IN "https://placehold.co/" \o width \o "x" \o height \o "/EEE/31343C?text=Failed+to+Load"

\* the attribute the placeholder is stored in (line 229)
PlaceholderAttr(attr) == "src"

\* an entry rewritten without its descriptors
MapSrcsetPartBare(part, base, map) ==
    LET toks == Tokens(part)
        u    == NewURL(toks[1], base)
    IN IF u = Invalid THEN "\\throw"
       ELSE IF Mapped(map, Href(u)) THEN map[Href(u)] ELSE toks[1]

\* lines 216-220; Invalid when new URL throws
MapSrcsetPart(part, base, map) ==
    LET toks == Tokens(part)
        u    == NewURL(toks[1], base)
    IN IF u = Invalid THEN "\\throw"
       ELSE JoinWith(<< IF Mapped(map, Href(u)) THEN map[Href(u)] ELSE toks[1] >> \o Tail(toks), " ")

MapElement(el, attr, base, map) ==
    LET value == el.attrs[attr] IN
    IF value = "" THEN el
    ELSE IF attr = "srcset"
         THEN LET parts == Split(value, ",")
                  new   == [k \in 1..Len(parts) |-> MapSrcsetPart(parts[k], base, map)]
              IN IF "\\throw" \in Range(new) THEN el
                 ELSE SetAttr(el, attr, JoinWith(new, ", "))
    ELSE LET u == NewURL(value, base) IN
         IF u = Invalid THEN el
         ELSE IF Mapped(map, Href(u)) THEN SetAttr(el, attr, map[Href(u)])
         ELSE IF attr \in {"src", "poster"} THEN SetAttr(el, PlaceholderAttr(attr), Placeholder(el))
         ELSE el

\* mapAttr(selector, attr) over the document
mapAttr(doc, sel, base, map) ==
    [k \in 1..Len(doc) |->
        IF k \in Matching(doc, sel) THEN MapElement(doc[k], sel.attr, base, map) ELSE doc[k]]

RECURSIVE MapSelectors(_, _, _, _)
\* lines 238-240
MapSelectors(doc, sels, base, map) ==
    IF Len(sels) = 0 THEN doc
    ELSE MapSelectors(mapAttr(doc, Head(sels), base, map), Tail(sels), base, map)

(***************************************************************************)
(* The CSS Reference Resolver, on one url(...) occurrence.                 *)
(***************************************************************************)
Quotes == {"'", "\""}

\* match[1] of /url\((?:'|"|)([^'")]+)(?:'|"|)\)/ on an occurrence
AssetRef(occ) ==
    LET inner == SubSeq(occ, 5, Len(occ) - 1)
        a     == IF Len(inner) > 0 /\ Char(inner, 1) \in Quotes
                 THEN SubSeq(inner, 2, Len(inner)) ELSE inner
    IN IF Len(a) > 0 /\ Char(a, Len(a)) \in Quotes THEN SubSeq(a, 1, Len(a) - 1) ELSE a

\* /^data:/.test(assetRef)
IsDataRef(assetRef) == StartsWith(assetRef, "data:")

\* a replacement by the path relative to outDir, not to the stylesheet
RewriteOccFromRoot(occ, originalUrl, cssFullPath, outDir, map) ==
    LET assetRef == AssetRef(occ)
        u        == NewURL(assetRef, NewURL(originalUrl, NoBase))
    IN IF IsDataRef(assetRef) \/ u = Invalid \/ ~Mapped(map, Href(u)) THEN occ
       ELSE "url('" \o map[Href(u)] \o "')"

\* lines 184-197: the replacement of one occurrence
RewriteOcc(occ, originalUrl, cssFullPath, outDir, map) ==
    LET assetRef == AssetRef(occ)
        u        == NewURL(assetRef, NewURL(originalUrl, NoBase))
    IN IF IsDataRef(assetRef) \/ u = Invalid \/ ~Mapped(map, Href(u)) THEN occ
       ELSE "url('" \o PathRelative(PathDirname(cssFullPath), PathJoin(outDir, map[Href(u)]))
                    \o "')"

\* originalUrl.toLowerCase().endsWith('.css')
IsCss(originalUrl) == EndsWith(ToLowerCase(originalUrl), ".css")

(***************************************************************************)
(* The state of one cloneWebsite job.                                      *)
(***************************************************************************)
VARIABLES
    urlStr,          \* the argument of cloneWebsite
    page,            \* the document the origin serves at urlStr
    pc,              \* the position of the job in cloneWebsite
    job,             \* base, outDir and assetsDir, once computed
    dirs,            \* the directories of the file system
    files,           \* the files of the file system and their content
    dom,             \* $, the parsed document
    assetUrls,       \* Array.from(assetSet)
    i,               \* the index of the batch loop (0-based)
    inFlight,        \* the requests sent and not yet answered
    batchResults,    \* the outcomes the promises of the current batch resolved to
    downloadResults, \* the outcomes of the finished batches
    pauses,          \* the number of inter-batch pauses taken
    urlToLocal,      \* absolute URL -> path relative to outDir
    cssTodo,         \* the entries of urlToLocal still to visit (line 156)
    cssRaw,          \* cssContentRaw of the stylesheet being processed
    matchIdx,        \* the occurrence urlRegex.exec stands on
    requests,        \* every request sent, in the order of sending
    nestedResults,   \* r2 of every nested downloadAsset, in the order of the calls
    steps,           \* the number of steps the job has taken
    runs,            \* the number of times the loop of line 156 was started over
    result           \* what the call returned, or that it raised

(***************************************************************************)
(* The process around the job: its clock and the jobs it has started.      *)
(***************************************************************************)
VARIABLES
    now,             \* Date.now()
    jobDirs          \* outDir of every cloneWebsite call started, in order

(***************************************************************************)
(* WorkflowOrchestrator.run (workflow-orchestrator.js).                    *)
(***************************************************************************)
VARIABLES
    policy,          \* FALLBACK_POLICY
    opc,             \* the position of run
    safety,          \* the number of iterations of the loop
    plan,            \* the steps of the response still to execute
    cloneResult,     \* what the last cloneWebsite returned
    analysisResult,  \* what the last analyzeWebsite returned
    generateResult,  \* what the last generateNodeApp returned
    log,             \* the fallback's console line, then the tools it called
    appDir           \* what run returned

orchVars ==
    << policy, opc, safety, plan, cloneResult, analysisResult, generateResult, log, appDir >>

\* the state that no step of a single job touches
aside == << now, jobDirs, orchVars >>

\* the state of the job
jobVars == << urlStr, page, pc, job, dirs, files, dom, assetUrls, i, inFlight, batchResults,
              downloadResults, pauses, urlToLocal, cssTodo, cssRaw, matchIdx, requests,
              nestedResults, steps, runs, result >>

vars == << jobVars, aside >>

\* lines 70-77 of a call that reads the time t from the clock
JobAt(str, t) ==
    LET b == NewURL(str, NoBase)
        d == PathJoin(Cwd, "clones/" \o safeFilename(b.host) \o "_" \o t)
    IN [base |-> b, outDir |-> d, assetsDir |-> PathJoin(d, "assets")]

\* lines 70-77: the constants of the job
JobOf(str) == JobAt(str, Now)

NoJob == [base |-> NoBase, outDir |-> "", assetsDir |-> ""]

base      == job.base
outDir    == job.outDir
assetsDir == job.assetsDir
indexPath == PathJoin(outDir, "index.html")

NoResult == [kind |-> "none", message |-> "", dir |-> "", assetsCount |-> 0, failedDownloads |-> 0]

\* a plain error string
ErrorString(msg) == [NoResult EXCEPT !.kind = "string", !.message = msg]

\* the call rejects: an exception left cloneWebsite at the named step
Raised(step) == [NoResult EXCEPT !.kind = "raised", !.message = step]

NoMap == [u \in {} |-> ""]

\* a call of cloneWebsite on a page that is one of docs
JobInitOn(docs) ==
    /\ urlStr \in Inputs
    /\ page \in (IF NewURL(urlStr, NoBase) = Invalid THEN { << >> } ELSE docs)
    /\ pc = "start"
    /\ job = NoJob
    /\ dirs = {"/", Cwd}
    /\ files = NoFiles
    /\ dom = << >>
    /\ assetUrls = << >>
    /\ i = 0
    /\ inFlight = {}
    /\ batchResults = NoMap
    /\ downloadResults = << >>
    /\ pauses = 0
    /\ urlToLocal = NoMap
    /\ cssTodo = << >>
    /\ cssRaw = << >>
    /\ matchIdx = 0
    /\ requests = << >>
    /\ nestedResults = << >>
    /\ steps = 0
    /\ runs = 0
    /\ result = NoResult

JobInit == JobInitOn(Docs)

\* the clock, and no other call yet
ClockStart == now = 1 /\ jobDirs = << >>

\* run has not been called
OrchStart ==
    /\ opc = "loop"
    /\ safety = 0
    /\ plan = << >>
    /\ cloneResult = "undefined"
    /\ analysisResult = "undefined"
    /\ generateResult = "undefined"
    /\ log = << >>
    /\ appDir = "undefined"

\* process.env.FALLBACK_POLICY || 'last_resort'
DefaultPolicy == "last_resort"

Init == JobInit /\ ClockStart /\ OrchStart /\ policy = DefaultPolicy

\* return value, or the exception that ends the call
Finish(r) == pc' = "done" /\ result' = r

(***************************************************************************)
(* Lines 66-78: validation of the argument, then mkdir of the assets       *)
(* directory is asked for.                                                 *)
(***************************************************************************)
\* a validation that only rejects the empty argument
InputErrorLax(str) == IF str = "" THEN "No URL provided" ELSE ""

\* lines 67-73: the message returned for a bad argument, "" for a good one
InputError(str) ==
    IF str = "" THEN "No URL provided"
    ELSE IF NewURL(str, NoBase) = Invalid THEN "Invalid URL: " \o str
    ELSE ""

Validate ==
    /\ steps' = steps + 1
    /\ pc = "start"
    /\ IF InputError(urlStr) # ""
       THEN Finish(ErrorString(InputError(urlStr))) /\ UNCHANGED job
       ELSE job' = JobOf(urlStr) /\ pc' = "mkdir" /\ UNCHANGED result
    /\ UNCHANGED << aside, runs, nestedResults, urlStr, page, dirs, files, dom, assetUrls, i, inFlight, batchResults,
                    downloadResults, pauses, urlToLocal, cssTodo, cssRaw, matchIdx, requests >>

(***************************************************************************)
(* Line 78 returns; lines 80-85 send the request for the root document.    *)
(***************************************************************************)
Mkdir ==
    /\ steps' = steps + 1
    /\ pc = "mkdir"
    /\ \E ok \in BOOLEAN :
        IF ok
        THEN /\ dirs' = dirs \cup Ancestors(assetsDir) \cup {assetsDir}
             /\ requests' = Append(requests, urlStr)
             /\ inFlight' = {urlStr}
             /\ pc' = "root"
             /\ UNCHANGED result
        ELSE /\ Finish(Raised("mkdir"))
             /\ UNCHANGED << dirs, requests, inFlight >>
    /\ UNCHANGED << aside, runs, nestedResults, urlStr, page, job, files, dom, assetUrls, i, batchResults,
                    downloadResults, pauses, urlToLocal, cssTodo, cssRaw, matchIdx >>

(***************************************************************************)
(* Line 85 returns or throws; line 86 parses the document.                 *)
(***************************************************************************)
RootFetch ==
    /\ steps' = steps + 1
    /\ pc = "root"
    /\ inFlight' = {}
    /\ \E resp \in Responses :
        IF resp = "200"
        THEN dom' = page /\ pc' = "discover" /\ UNCHANGED result
        ELSE Finish(Raised("root fetch")) /\ UNCHANGED dom
    /\ UNCHANGED << aside, runs, nestedResults, urlStr, page, job, dirs, files, assetUrls, i, batchResults,
                    downloadResults, pauses, urlToLocal, cssTodo, cssRaw, matchIdx, requests >>

(***************************************************************************)
(* Lines 88-128: discovery.                                                *)
(***************************************************************************)
Discovery ==
    /\ steps' = steps + 1
    /\ pc = "discover"
    /\ LET d == Discover(dom, base) IN
        IF d.threw THEN Finish(Raised("discovery")) /\ UNCHANGED assetUrls
        ELSE assetUrls' = d.set /\ pc' = "batch" /\ UNCHANGED result
    /\ UNCHANGED << aside, runs, nestedResults, urlStr, page, job, dirs, files, dom, i, inFlight, batchResults,
                    downloadResults, pauses, urlToLocal, cssTodo, cssRaw, matchIdx, requests >>

(***************************************************************************)
(* Lines 130-143: the batch loop.                                          *)
(***************************************************************************)
Min(a, b) == IF a < b THEN a ELSE b

\* a slice one URL longer than the batch size
BatchWide(urls, from) == SubSeq(urls, from + 1, Min(from + BATCH_SIZE + 1, Len(urls)))

\* assetUrls.slice(i, i + BATCH_SIZE)
Batch(urls, from) == SubSeq(urls, from + 1, Min(from + BATCH_SIZE, Len(urls)))

\* a loop index that passes over one URL
NextIndexSkip(from) == from + BATCH_SIZE + 1

\* a loop index that comes back on the last URL of the batch
NextIndexOverlap(from) == from + BATCH_SIZE - 1

\* the next value of the loop index (line 130)
NextIndex(from) == from + BATCH_SIZE

\* a loop condition that leaves before the last batch
InLoopShort(idx, urls) == idx + BATCH_SIZE < Len(urls)

\* line 130: i < assetUrls.length
InLoop(idx, urls) == idx < Len(urls)

\* the part of a downloadAsset result that cloneWebsite keeps
Outcome(r) == [ok |-> r.ok, url |-> r.url, outPath |-> r.outPath, error |-> r.error]

\* lines 131-138: batch.map starts every downloadAsset of the batch
StartBatch ==
    /\ steps' = steps + 1
    /\ pc = "batch"
    /\ InLoop(i, assetUrls)
    /\ inFlight' = Range(Batch(assetUrls, i))
    /\ requests' = requests \o Batch(assetUrls, i)
    /\ batchResults' = NoMap
    /\ pc' = "await"
    /\ UNCHANGED << aside, runs, nestedResults, urlStr, page, job, dirs, files, dom, assetUrls, i, downloadResults, pauses,
                    urlToLocal, cssTodo, cssRaw, matchIdx, result >>

\* one downloadAsset of the batch runs from the response to its return
FetchDone ==
    /\ steps' = steps + 1
    /\ pc = "await"
    /\ \E u \in inFlight, resp \in Responses :
        LET r == downloadAsset(u, assetsDir, resp, dirs, files) IN
        /\ inFlight' = inFlight \ {u}
        /\ IF r.threw
           THEN Finish(Raised("batch")) /\ UNCHANGED << dirs, files, batchResults >>
           ELSE /\ dirs' = r.dirs
                /\ files' = r.files
                /\ batchResults' = [x \in DOMAIN batchResults \cup {u} |->
                                       IF x = u THEN Outcome(r) ELSE batchResults[x]]
                /\ UNCHANGED << pc, result >>
    /\ UNCHANGED << aside, runs, nestedResults, urlStr, page, job, dom, assetUrls, i, downloadResults, pauses,
                    urlToLocal, cssTodo, cssRaw, matchIdx, requests >>

\* lines 140-141: Promise.all resolves, the outcomes are appended in batch order
BatchJoin ==
    /\ steps' = steps + 1
    /\ pc = "await"
    /\ inFlight = {}
    /\ LET batch == Batch(assetUrls, i) IN
        downloadResults' = downloadResults \o [k \in 1..Len(batch) |-> batchResults[batch[k]]]
    /\ pc' = "sleep"
    /\ UNCHANGED << aside, runs, nestedResults, urlStr, page, job, dirs, files, dom, assetUrls, i, inFlight, batchResults,
                    pauses, urlToLocal, cssTodo, cssRaw, matchIdx, requests, result >>

\* line 142: the pause ends, the loop index advances
Sleep ==
    /\ steps' = steps + 1
    /\ pc = "sleep"
    /\ pauses' = pauses + 1
    /\ i' = NextIndex(i)
    /\ pc' = "batch"
    /\ UNCHANGED << aside, runs, nestedResults, urlStr, page, job, dirs, files, dom, assetUrls, inFlight, batchResults,
                    downloadResults, urlToLocal, cssTodo, cssRaw, matchIdx, requests, result >>

(***************************************************************************)
(* Lines 145-153: the successes are recorded in urlToLocal.                *)
(***************************************************************************)
\* an assignment that forgets the other keys
RecordAlone(map, key, rel) == [x \in {key} |-> rel]

\* urlToLocal[key] = rel
Record(map, key, rel) == [x \in DOMAIN map \cup {key} |-> IF x = key THEN rel ELSE map[x]]

RECURSIVE RecordAll(_, _, _)
RecordAll(map, results, dir) ==
    IF Len(results) = 0 THEN map
    ELSE LET r == Head(results) IN
         RecordAll(IF r.ok THEN Record(map, r.url, PathRelative(dir, r.outPath)) ELSE map,
                   Tail(results), dir)

\* Object.entries(urlToLocal): the keys in insertion order, the order of
\* the successes in downloadResults
Entries(map, results) ==
    LET oks == SelectSeq(results, LAMBDA r : r.ok /\ r.url \in DOMAIN map)
    IN [k \in 1..Len(oks) |-> [url |-> oks[k].url, localPath |-> map[oks[k].url]]]

ProcessResults ==
    /\ steps' = steps + 1
    /\ pc = "batch"
    /\ ~InLoop(i, assetUrls)
    /\ urlToLocal' = RecordAll(urlToLocal, downloadResults, outDir)
    /\ cssTodo' = Entries(urlToLocal', downloadResults)
    /\ pc' = "css"
    /\ UNCHANGED << aside, runs, nestedResults, urlStr, page, job, dirs, files, dom, assetUrls, i, inFlight, batchResults,
                    downloadResults, pauses, cssRaw, matchIdx, requests, result >>

(***************************************************************************)
(* Lines 155-206: the stylesheets among the entries of urlToLocal.         *)
(***************************************************************************)
originalUrl == Head(cssTodo).url
cssFullPath == PathJoin(outDir, Head(cssTodo).localPath)

\* the absolute URL of the occurrence the scan stands on
absoluteUrl == NewURL(AssetRef(cssRaw[matchIdx]), NewURL(originalUrl, NoBase))

\* lines 156-161: the next entry; a stylesheet is read, anything else is passed
CssOpen ==
    /\ steps' = steps + 1
    /\ pc = "css"
    /\ cssTodo # << >>
    /\ IF IsCss(originalUrl) /\ cssFullPath \in DOMAIN files
       THEN /\ cssRaw' = files[cssFullPath].text
            /\ matchIdx' = 1
            /\ pc' = "scan"
            /\ UNCHANGED cssTodo
       ELSE /\ cssTodo' = Tail(cssTodo)
            /\ UNCHANGED << cssRaw, matchIdx, pc >>
    /\ UNCHANGED << aside, runs, nestedResults, urlStr, page, job, dirs, files, dom, assetUrls, i, inFlight, batchResults,
                    downloadResults, pauses, urlToLocal, requests, result >>

\* whether the occurrence makes the loop of line 166 call downloadAsset
NeedsFetch(assetRef, u, map) ==
    /\ ~IsDataRef(assetRef)
    /\ u # Invalid
    /\ ~Mapped(map, Href(u))

\* lines 166-173: one turn of the scan, up to the request of a nested asset
CssScan ==
    /\ steps' = steps + 1
    /\ pc = "scan"
    /\ matchIdx <= Len(cssRaw)
    /\ IF NeedsFetch(AssetRef(cssRaw[matchIdx]), absoluteUrl, urlToLocal)
       THEN /\ inFlight' = {Href(absoluteUrl)}
            /\ requests' = Append(requests, Href(absoluteUrl))
            /\ pc' = "nested"
            /\ UNCHANGED matchIdx
       ELSE /\ matchIdx' = matchIdx + 1
            /\ UNCHANGED << inFlight, requests, pc >>
    /\ UNCHANGED << aside, runs, nestedResults, urlStr, page, job, dirs, files, dom, assetUrls, i, batchResults,
                    downloadResults, pauses, urlToLocal, cssTodo, cssRaw, result >>

\* lines 173-181: the nested downloadAsset returns
CssFetchDone ==
    /\ steps' = steps + 1
    /\ pc = "nested"
    /\ \E resp \in Responses :
        LET r == downloadAsset(Href(absoluteUrl), assetsDir, resp, dirs, files) IN
        IF r.threw
        THEN UNCHANGED << dirs, files, urlToLocal, nestedResults >>
        ELSE /\ dirs' = r.dirs
             /\ nestedResults' = Append(nestedResults, Outcome(r))
             /\ files' = r.files
             /\ urlToLocal' = IF r.ok
                              THEN Record(urlToLocal, Href(absoluteUrl),
                                          PathRelative(outDir, r.outPath))
                              ELSE urlToLocal
    /\ inFlight' = {}
    /\ matchIdx' = matchIdx + 1
    /\ pc' = "scan"
    /\ UNCHANGED << aside, runs, urlStr, page, job, dom, assetUrls, i, batchResults, downloadResults,
                    pauses, cssTodo, cssRaw, requests, result >>

\* lines 184-197: cssContentRaw.replace(urlRegex, ...)
Rewritten(raw, url, fullPath, map) ==
    [k \in 1..Len(raw) |-> RewriteOcc(raw[k], url, fullPath, outDir, map)]

\* lines 184-201: the stylesheet is rewritten, and written if it changed
CssRewrite ==
    /\ steps' = steps + 1
    /\ pc = "scan"
    /\ matchIdx > Len(cssRaw)
    /\ LET cssContent == Rewritten(cssRaw, originalUrl, cssFullPath, urlToLocal) IN
        IF cssContent # cssRaw /\ ~WriteFails(cssFullPath, dirs)
        THEN files' = [files EXCEPT ![cssFullPath].text = cssContent]
        ELSE UNCHANGED files
    /\ cssTodo' = Tail(cssTodo)
    /\ pc' = "css"
    /\ UNCHANGED << aside, runs, nestedResults, urlStr, page, job, dirs, dom, assetUrls, i, inFlight, batchResults,
                    downloadResults, pauses, urlToLocal, cssRaw, matchIdx, requests, result >>

(***************************************************************************)
(* Lines 208-240: the references of the document are rewritten.            *)
(***************************************************************************)
RewriteHtml ==
    /\ steps' = steps + 1
    /\ pc = "css"
    /\ cssTodo = << >>
    /\ dom' = MapSelectors(dom, assetSelectors, base, urlToLocal)
    /\ pc' = "write"
    /\ UNCHANGED << aside, runs, nestedResults, urlStr, page, job, dirs, files, assetUrls, i, inFlight, batchResults,
                    downloadResults, pauses, urlToLocal, cssTodo, cssRaw, matchIdx,
                    requests, result >>

(***************************************************************************)
(* Lines 242-251: index.html is written and the manifest returned.         *)
(***************************************************************************)
\* $.html() on disk; a write that fails may leave a truncated file
IndexFile(whole) == [from |-> "$.html()", text |-> IF whole THEN << >> ELSE << "truncated" >>]

Failed(results) == Len(SelectSeq(results, LAMBDA r : ~r.ok))

Manifest ==
    [kind |-> "manifest", message |-> "Cloned site to " \o outDir, dir |-> outDir,
     assetsCount |-> Cardinality(DOMAIN urlToLocal),
     failedDownloads |-> Failed(downloadResults)]

WriteIndex ==
    /\ steps' = steps + 1
    /\ pc = "write"
    /\ \E ending \in {"written", "failed", "truncated"} :
        /\ files' = IF ending = "failed" THEN files
                    ELSE [p \in DOMAIN files \cup {indexPath} |->
                            IF p = indexPath THEN IndexFile(ending = "written") ELSE files[p]]
        /\ Finish(IF ending = "written" THEN Manifest ELSE Raised("index.html"))
    /\ UNCHANGED << aside, runs, nestedResults, urlStr, page, job, dirs, dom, assetUrls, i, inFlight, batchResults,
                    downloadResults, pauses, urlToLocal, cssTodo, cssRaw, matchIdx, requests >>

Next ==
    \/ Validate
    \/ Mkdir
    \/ RootFetch
    \/ Discovery
    \/ StartBatch
    \/ FetchDone
    \/ BatchJoin
    \/ Sleep
    \/ ProcessResults
    \/ CssOpen
    \/ CssScan
    \/ CssFetchDone
    \/ CssRewrite
    \/ RewriteHtml
    \/ WriteIndex

Spec == Init /\ [][Next]_vars

(***************************************************************************)
(* Progress.  A step that only computes, or awaits the file system or the  *)
(* timer, is taken.  A request made with the timeout option (lines 42-46)  *)
(* ends, by a response or by the timeout.  The request for the root        *)
(* document (line 85) is made without the option, and axios sets no time   *)
(* limit by default: nothing makes RootFetch happen.  Every other position *)
(* of a job that has not ended has a step to take.                         *)
(***************************************************************************)
\* the job takes its next step, unless it awaits the root document
Proceeds == pc \notin {"root", "done"} /\ steps' = steps + 1

LiveSpec == Spec /\ WF_steps(Proceeds)

(***************************************************************************)
(* Several cloneWebsite calls in one process: each reads the clock when it *)
(* starts (line 76).  Only the output directories are followed.            *)
(***************************************************************************)
\* the pages that are cloned
Origins == { "http://h/", "http://g/", "http://f/" }

\* `${Date.now()}`
TimeStr(t) == Char(Digits, t + 1)

ClockInit == Init /\ urlStr = ""

\* a millisecond passes
Tick ==
    /\ now < MaxClock
    /\ now' = now + 1
    /\ UNCHANGED << jobVars, jobDirs, orchVars >>

\* lines 66-78 of one more call: its output directory is named and made
StartJob ==
    /\ Len(jobDirs) < MaxJobs
    /\ \E str \in Origins : jobDirs' = Append(jobDirs, JobAt(str, TimeStr(now)).outDir)
    /\ UNCHANGED << jobVars, now, orchVars >>

ClockNext == Tick \/ StartJob

ClockSpec == ClockInit /\ [][ClockNext]_vars

(***************************************************************************)
(* WorkflowOrchestrator.run, workflow-orchestrator.js lines 108-220, with  *)
(* USE_GOOGLE set (lines 223-226: the class is used only then).  A tool's  *)
(* result is modelled by its shape: cloneWebsite returns its manifest (an  *)
(* object with dir) or a message string, or throws; analyzeWebsite returns *)
(* a report or {error}; generateNodeApp returns an object with appDir or   *)
(* {error}.                                                                *)
(***************************************************************************)
maxIterations == 15

\* the longest response of the model, in steps
MaxPlan == 2

\* line 13: any text of the environment, in lower case
Policies == { "never", "last_resort", "always" }

StepKinds == { "cloneWebsite", "analyzeWebsite", "generateNodeApp", "THINK", "OUTPUT" }

\* parseAIResponse: the validated steps of a response
Plans == UNION { [1..n -> StepKinds] : n \in 0..MaxPlan }

CloneOutcomes == { "manifest", "message", "throws" }

AnalysisOutcomes == { "report", "error" }

GenerateOutcomes == { "app", "error" }

OrchInit == JobInit /\ urlStr = "" /\ ClockStart /\ OrchStart /\ policy \in Policies

\* a loop condition that lets one more iteration in
LoopGoesOnLax(n) == n <= maxIterations

\* line 116: safety < maxIterations
LoopGoesOn(n) == n < maxIterations

\* lines 116-143: one more response is asked for and parsed
Ask ==
    /\ opc = "loop"
    /\ LoopGoesOn(safety)
    /\ safety' = safety + 1
    /\ \/ /\ opc' = "raised"              \* line 122 rejects
          /\ plan' = plan
       \/ \E st \in Plans :
            /\ plan' = st
            /\ opc' = IF Len(st) = 0 THEN "fallback" ELSE "steps"
    /\ UNCHANGED << policy, cloneResult, analysisResult, generateResult, log, appDir >>
    /\ UNCHANGED << jobVars, now, jobDirs >>

\* line 116: the loop ends after maxIterations responses
LoopEnd ==
    /\ opc = "loop"
    /\ ~LoopGoesOn(safety)
    /\ opc' = "fallback"
    /\ UNCHANGED << policy, safety, plan, cloneResult, analysisResult, generateResult,
                    log, appDir >>
    /\ UNCHANGED << jobVars, now, jobDirs >>

\* lines 195-198: after a step
AfterStep(rest) ==
    /\ plan' = rest
    /\ opc' = IF Len(rest) = 0 THEN "loop" ELSE "steps"

\* lines 146-196: the next step of the response
ExecStep ==
    /\ opc = "steps"
    /\ plan # << >>
    /\ LET step == Head(plan) IN
         \/ /\ step = "cloneWebsite"
            /\ \E r \in CloneOutcomes :
                 cloneResult' = IF r = "throws" THEN cloneResult ELSE r
            /\ AfterStep(Tail(plan))
            /\ UNCHANGED << analysisResult, generateResult >>
         \/ /\ step = "analyzeWebsite"
            /\ analysisResult' \in AnalysisOutcomes
            /\ AfterStep(Tail(plan))
            /\ UNCHANGED << cloneResult, generateResult >>
         \/ /\ step = "generateNodeApp"
            /\ generateResult' \in GenerateOutcomes
            /\ AfterStep(Tail(plan))
            /\ UNCHANGED << cloneResult, analysisResult >>
         \/ /\ step = "THINK"
            /\ AfterStep(Tail(plan))
            /\ UNCHANGED << cloneResult, analysisResult, generateResult >>
         \/ /\ step = "OUTPUT"
            /\ opc' = "fallback"
            /\ UNCHANGED << plan, cloneResult, analysisResult, generateResult >>
    /\ UNCHANGED << policy, safety, log, appDir >>
    /\ UNCHANGED << jobVars, now, jobDirs >>

\* line 206
shouldFallback == policy = "always" /\ generateResult = "undefined"

\* line 210
FallbackClone(c) == IF cloneResult = "undefined" THEN c ELSE cloneResult

\* line 211, reached unless line 210 threw
FallbackAnalysis(cr, a) ==
    IF cr = "manifest" /\ analysisResult = "undefined" THEN a ELSE analysisResult

\* line 212
FallbackGenerate(cr, ar, g) ==
    IF cr = "manifest" /\ ar # "undefined" THEN g ELSE generateResult

\* lines 208-212: the console line and the tools called
FallbackLog(c) ==
    LET cr == FallbackClone(c)
        ar == FallbackAnalysis(cr, "report")
    IN  << "Executing deterministic fallback..." >>
          \o (IF cloneResult = "undefined" THEN << "cloneWebsite" >> ELSE << >>)
          \o (IF cr = "throws" THEN << >>
              ELSE (IF cr = "manifest" /\ analysisResult = "undefined"
                    THEN << "analyzeWebsite" >> ELSE << >>)
                   \o (IF cr = "manifest" /\ ar # "undefined"
                       THEN << "generateNodeApp" >> ELSE << >>))

\* line 219
Returned(cr, gr) ==
    IF gr = "app" THEN "appDir"
    ELSE IF cr = "manifest" THEN "dir_app" ELSE "undefined"

\* lines 205-219: the fallback, and the return
Fallback ==
    /\ opc = "fallback"
    /\ opc' = "returned"
    /\ IF shouldFallback
       THEN \E c \in CloneOutcomes, a \in AnalysisOutcomes, g \in GenerateOutcomes :
              LET cr == FallbackClone(c) IN
                /\ log' = FallbackLog(c)
                /\ IF cr = "throws"
                   THEN UNCHANGED << cloneResult, analysisResult, generateResult >>
                   ELSE /\ cloneResult' = cr
                        /\ analysisResult' = FallbackAnalysis(cr, a)
                        /\ generateResult' =
                             FallbackGenerate(cr, FallbackAnalysis(cr, a), g)
       ELSE UNCHANGED << cloneResult, analysisResult, generateResult, log >>
    /\ appDir' = Returned(cloneResult', generateResult')
    /\ UNCHANGED << policy, safety, plan >>
    /\ UNCHANGED << jobVars, now, jobDirs >>

OrchNext == Ask \/ LoopEnd \/ ExecStep \/ Fallback

OrchSpec == OrchInit /\ [][OrchNext]_vars

(***************************************************************************)
(* Progress of run.  Between two awaits run only computes; an await ends   *)
(* when the call of the model or of the tool returns or throws.  With      *)
(* every such call ending, run takes its next step as long as it has one.  *)
(***************************************************************************)
OrchLiveSpec == OrchSpec /\ WF_vars(OrchNext)

(***************************************************************************)
(* The CSS Reference Resolver applied again.  The loop of lines 156-206 is *)
(* started over on the entries it has visited, on the files and with the   *)
(* map that the first pass left behind.                                    *)
(***************************************************************************)
\* the number of times the loop is started over
MaxRuns == 1

\* the elements of the pages: stylesheets, and images the stylesheets name
ResolveCatalogue ==
    << Elem("link", [rel |-> "stylesheet", href |-> "css/s.css"]),
       Elem("link", [rel |-> "stylesheet", href |-> "css/t.css"]),
       Elem("link", [rel |-> "stylesheet", href |-> "css//u.css"]),
       Elem("img",  [src |-> "a.png"]),
       Elem("img",  [src |-> "css/a.png"]) >>

ResolveDocs ==
    UNION { { [k \in 1..n |-> ResolveCatalogue[f[k]]] :
                f \in { g \in [1..n -> 1..Len(ResolveCatalogue)] :
                          \A a, b \in 1..n : a < b => g[a] < g[b] } } : n \in 0..MaxElems }

ResolveInit ==
    /\ JobInitOn(ResolveDocs)
    /\ urlStr = "http://h/"
    /\ ClockStart
    /\ OrchStart
    /\ policy = DefaultPolicy

\* line 156 again: the entries the first pass visited
Rerun ==
    /\ pc = "css"
    /\ cssTodo = << >>
    /\ runs < MaxRuns
    /\ runs' = runs + 1
    /\ cssTodo' = Entries(urlToLocal, downloadResults)
    /\ UNCHANGED << aside, nestedResults, urlStr, page, pc, job, dirs, files, dom, assetUrls, i,
                    inFlight, batchResults, downloadResults, pauses, urlToLocal, cssRaw,
                    matchIdx, requests, steps, result >>

ResolveNext == Next \/ Rerun

ResolveSpec == ResolveInit /\ [][ResolveNext]_vars

(***************************************************************************)
(* Jobs on pages whose assets have the same pathname and differ in host,   *)
(* query string or fragment.                                               *)
(***************************************************************************)
ShareCatalogue ==
    << Elem("img",  [src |-> "a.png"]),
       Elem("img",  [src |-> "a.png?v=2"]),
       Elem("img",  [src |-> "a.png#top"]),
       Elem("img",  [src |-> "//g/a.png"]),
       Elem("link", [rel |-> "stylesheet", href |-> "css/t.css"]) >>

ShareDocs ==
    UNION { { [k \in 1..n |-> ShareCatalogue[f[k]]] :
                f \in { g \in [1..n -> 1..Len(ShareCatalogue)] :
                          \A a, b \in 1..n : a < b => g[a] < g[b] } } : n \in 0..MaxElems }

ShareInit ==
    /\ JobInitOn(ShareDocs)
    /\ urlStr = "http://h/"
    /\ ClockStart
    /\ OrchStart
    /\ policy = DefaultPolicy

ShareSpec == ShareInit /\ [][Next]_vars

(***************************************************************************)
(* Properties.                                                             *)
(***************************************************************************)
\* the job has gone through the whole batch phase
AfterBatches == pc \in {"css", "scan", "nested", "write"} \/ result.kind = "manifest"

\* C1: every file a download writes lies at a descendant of the resolved
\* output root (the assets directory followed by a separator and further
\* segments); a URL whose path is not such a descendant writes nothing.
C1_WritesStayUnderRoot ==
    \A p \in DOMAIN files : p # indexPath => IsDescendant(p, assetsDir)

\* C2: urlToLocal only grows: an entry is never removed and its local path
\* never changes, whatever step the job takes.
C2_MapOnlyGrows ==
    [][\A u \in DOMAIN urlToLocal :
          u \in DOMAIN urlToLocal' /\ urlToLocal'[u] = urlToLocal[u]]_vars

\* the job ended with entries of both origins: recorded from the batch
\* results and added by the CSS phase
C2_Witness ==
    /\ result.kind = "manifest"
    /\ \E u \in DOMAIN urlToLocal : u \in Range(assetUrls)
    /\ \E u \in DOMAIN urlToLocal : u \notin Range(assetUrls)

\* the single-valued attributes the catalogue names for an element
SingleAttrs(el) ==
    { assetSelectors[k].attr : k \in { n \in 1..Len(assetSelectors) :
          /\ assetSelectors[n].tag = el.tag
          /\ assetSelectors[n].attr # "srcset"
          /\ assetSelectors[n].attr \in DOMAIN el.attrs } }

\* C3: in the index.html that is written, every catalogued single-valued
\* attribute whose original value resolves to a URL of the final map holds
\* the mapped local path.
C3_MappedAttributesAreLocal ==
    result.kind = "manifest" =>
        \A k \in 1..Len(page) : \A a \in SingleAttrs(page[k]) :
            LET u == NewURL(page[k].attrs[a], base) IN
            (page[k].attrs[a] # "" /\ u # Invalid /\ Mapped(urlToLocal, Href(u)))
                => dom[k].attrs[a] = urlToLocal[Href(u)]

\* C4: at most 5 requests are in flight at any moment of the job.
C4_AtMostFiveInFlight == Cardinality(inFlight) <= 5

\* a full batch is in flight
C4_Witness == pc = "await" /\ Cardinality(inFlight) = 5

\* C5: once the batch phase is over, downloadResults holds exactly one
\* outcome for every discovered URL and nothing else.
C5_OneOutcomePerUrl ==
    AfterBatches =>
        /\ Len(downloadResults) = Len(assetUrls)
        /\ \A u \in Range(assetUrls) :
              Cardinality({ k \in 1..Len(downloadResults) : downloadResults[k].url = u }) = 1

\* two batches were needed, and successes and failures are mixed
C5_Witness ==
    /\ AfterBatches
    /\ Len(assetUrls) > BATCH_SIZE
    /\ \E k \in 1..Len(downloadResults) : downloadResults[k].ok
    /\ \E k \in 1..Len(downloadResults) : ~downloadResults[k].ok

\* the outcomes produced so far
Outcomes == Range(downloadResults) \cup { batchResults[u] : u \in DOMAIN batchResults }

\* C6: downloadAsset never raises: every failure is an outcome
\* {ok: false, url, error}; no exception leaves the batch phase, every URL
\* of every batch gets its outcome and every success is recorded.
C6_FailuresAreOutcomes ==
    /\ ~(result.kind = "raised" /\ result.message = "batch")
    /\ \A r \in Outcomes : ~r.ok => (r.url \in Range(assetUrls) /\ r.error # "")
    /\ AfterBatches =>
          \A u \in Range(assetUrls) :
              \E r \in Range(downloadResults) :
                  r.url = u /\ (r.ok => Mapped(urlToLocal, u))

\* the manifest is reached after a batch in which a request failed, a
\* path was refused and another download succeeded
C6_Witness ==
    /\ result.kind = "manifest"
    /\ \E r \in Range(downloadResults) : r.error = "Request failed"
    /\ \E r \in Range(downloadResults) : r.error = "Path traversal attempt"
    /\ \E r \in Range(downloadResults) : r.ok

\* the requests sent for assets of the page (the first one is the page)
Started == Len(requests) - 1

\* C7: batches run one after another: while a batch is awaited every URL
\* of it has been requested and none of a later batch, every earlier
\* batch has all its outcomes and one pause was taken after each of them.
C7_BatchesAreSequential ==
    /\ pc = "await" =>
          /\ Started = Min(i + BATCH_SIZE, Len(assetUrls))
          /\ inFlight \subseteq Range(Batch(assetUrls, i))
          /\ Len(downloadResults) = i
          /\ pauses * BATCH_SIZE = i
    /\ pc \in {"batch", "sleep"} =>
          /\ inFlight = {}
          /\ Started = Len(downloadResults)
          /\ pauses * BATCH_SIZE = i

\* the second batch is in flight
C7_Witness == pc = "await" /\ i = BATCH_SIZE /\ inFlight # {} /\ pauses = 1

\* the reference strings an element carries in catalogued attributes
RefsOf(el) ==
    { el.attrs[a] : a \in SingleAttrs(el) }
    \cup (IF el.tag = "img" /\ "srcset" \in DOMAIN el.attrs
          THEN { Tokens(part)[1] : part \in Range(Split(el.attrs["srcset"], ",")) }
          ELSE {})

\* the absolute URLs the references of a document resolve to
Resolvable(doc, b) ==
    { NewURL(v, b) : v \in UNION { RefsOf(doc[k]) : k \in 1..Len(doc) } \ {""} } \ {Invalid}

\* C8: a reference that cannot be resolved does not abort the job: it is
\* passed over and every other reference of the document is discovered.
C8_DiscoverySkipsBadReferences ==
    /\ ~(result.kind = "raised" /\ result.message = "discovery")
    /\ pc \in {"batch", "await", "sleep"} =>
          Range(assetUrls) = { Href(u) : u \in Resolvable(page, base) }

\* C9: when the directories could be created, the call ends by returning a
\* manifest or an error string, and index.html is absent or whole.
C9_AlwaysReturns ==
    (pc = "done" /\ result.message # "mkdir") =>
        /\ result.kind \in {"manifest", "string"}
        /\ indexPath \in DOMAIN files => files[indexPath] = IndexFile(TRUE)

\* C10: an empty or unparseable argument is answered by an error string,
\* and no directory is made, no request sent, no file written.
C10_BadInputDoesNoIO ==
    (urlStr = "" \/ NewURL(urlStr, NoBase) = Invalid) =>
        /\ pc \in {"start", "done"}
        /\ pc = "done" => result.kind = "string"
        /\ dirs = {"/", Cwd}
        /\ files = NoFiles
        /\ requests = << >>
        /\ inFlight = {}

\* the call returned the message for an unparseable argument
C10_Witness == pc = "done" /\ result.kind = "string" /\ urlStr = "http://["

\* the image and media elements
MediaTags == {"img", "source", "audio", "video"}

\* dom is the document after the rewriting of its references
Rewrote == pc = "write" \/ result.kind = "manifest"

\* the placeholder reference for an element, sized from its width and
\* height attributes, 400 and 300 when absent
PlaceholderFor(el) ==
    "https://placehold.co/"
        \o (IF "width" \in DOMAIN el.attrs THEN el.attrs["width"] ELSE "400") \o "x"
        \o (IF "height" \in DOMAIN el.attrs THEN el.attrs["height"] ELSE "300")
        \o "/EEE/31343C?text=Failed+to+Load"

\* C11: in the rewritten document, an element with a catalogued
\* single-valued attribute whose URL resolves and has no local mapping
\* carries the placeholder (sized from width and height, 400 and 300 by
\* default) when the attribute is src or poster of an img, source, audio
\* or video element, and is exactly as it was for link href, script src,
\* meta content and object data.
C11_PlaceholderOnlyForMedia ==
    Rewrote =>
        \A k \in 1..Len(page) : \A a \in SingleAttrs(page[k]) :
            LET u == NewURL(page[k].attrs[a], base) IN
            (page[k].attrs[a] # "" /\ u # Invalid /\ ~Mapped(urlToLocal, Href(u)))
                => IF page[k].tag \in MediaTags /\ a \in {"src", "poster"}
                   THEN \E x \in DOMAIN dom[k].attrs :
                            dom[k].attrs[x] = PlaceholderFor(page[k])
                   ELSE dom[k] = page[k]

\* a reference whose target is a data: URI, in any letter case of the
\* scheme and with or without surrounding whitespace
IsDataUri(ref) == ToLowerCase(Prefix(Trim(ref), 5)) = "data:"

\* the outcomes of the stylesheets the batch phase downloaded
Stylesheets == { r \in Range(downloadResults) : r.ok /\ IsCss(r.url) }

\* C12: once the stylesheets are processed, a url(...) occurrence whose
\* target is a data: URI has caused no request, has no entry in
\* urlToLocal, no file, and stands unchanged in the stylesheet on disk.
C12_DataUrisUntouched ==
    Rewrote =>
        \A r \in Stylesheets : \A k \in 1..Len(CssText(r.url)) :
            LET occ    == CssText(r.url)[k]
                target == Href(NewURL(AssetRef(occ), NewURL(r.url, NoBase)))
            IN IsDataUri(AssetRef(occ)) =>
                  /\ target \notin Range(requests)
                  /\ target \notin DOMAIN urlToLocal
                  /\ \A p \in DOMAIN files : files[p].from # target
                  /\ files[r.outPath].text[k] = occ

\* C13: in the manifest, failedDownloads is the number of fetches of the
\* job that ended in a failure, batch and nested ones alike, and
\* assetsCount is the number of URLs of the final urlToLocal.
C13_ManifestCounts ==
    result.kind = "manifest" =>
        /\ result.failedDownloads = Failed(downloadResults) + Failed(nestedResults)
        /\ result.assetsCount = Cardinality(DOMAIN urlToLocal)

\* the absolute URLs the url(...) occurrences of a stylesheet resolve to,
\* data: URIs aside
NestedRefs(url) ==
    { Href(t) : t \in { NewURL(AssetRef(CssText(url)[k]), NewURL(url, NoBase)) :
                            k \in { n \in 1..Len(CssText(url)) :
                                       ~IsDataUri(AssetRef(CssText(url)[n])) } }
                        \ {Invalid} }

\* C14: when the document is rewritten, the resolver has been run on
\* every downloaded asset whose URL ends in .css, those downloaded as
\* nested references included: each of its url(...) references was fetched.
C14_EveryStylesheetResolved ==
    Rewrote =>
        \A u \in DOMAIN urlToLocal :
            IsCss(u) => NestedRefs(u) \subseteq Range(requests)

\* C15: rewriting a srcset keeps the number and the order of its
\* comma-separated entries and every descriptor; the first token of an
\* entry becomes the mapped local path when its URL is in urlToLocal and
\* is unchanged otherwise.
C15_SrcsetKeepsEntries ==
    Rewrote =>
        \A k \in 1..Len(page) :
            (page[k].tag = "img" /\ "srcset" \in DOMAIN page[k].attrs) =>
                LET old == Split(page[k].attrs["srcset"], ",")
                    new == Split(dom[k].attrs["srcset"], ",")
                IN /\ Len(new) = Len(old)
                   /\ \A n \in 1..Len(old) :
                         LET toks == Tokens(old[n])
                             u    == NewURL(toks[1], base)
                         IN Tokens(new[n]) =
                               << IF u # Invalid /\ Mapped(urlToLocal, Href(u))
                                  THEN urlToLocal[Href(u)] ELSE toks[1] >> \o Tail(toks)

\* "a.png 1x, b.png 2x" was rewritten with a.png downloaded and b.png not
C15_Witness ==
    /\ Rewrote
    /\ \E k \in 1..Len(page) :
          /\ "srcset" \in DOMAIN page[k].attrs
          /\ page[k].attrs["srcset"] = "a.png 1x, b.png 2x"
          /\ dom[k].attrs["srcset"] = "assets/a.png 1x, b.png 2x"

\* C16: any two cloneWebsite calls, whenever they start and whatever they
\* clone, get different output directories.
C16_JobDirsDiffer ==
    \A a, b \in 1..Len(jobDirs) : a # b => jobDirs[a] # jobDirs[b]

\* a text that is a URL by itself
IsUrlText(v) == ToLowerCase(Prefix(Trim(v), 7)) = "http://" \/ IsDataUri(v)

\* a meta tag whose content is no URL, or a link that is no stylesheet
CarriesNoAsset(el) ==
    \/ el.tag = "meta" /\ "content" \in DOMAIN el.attrs /\ ~IsUrlText(el.attrs["content"])
    \/ el.tag = "link" /\ ~("rel" \in DOMAIN el.attrs /\ el.attrs["rel"] = "stylesheet")

\* C17: the discovered set holds only URLs carried by the other elements
\* of the page: a meta tag whose content is no URL and a link that is no
\* stylesheet add no URL to it, and they are never rewritten.
C17_OnlyAssetsDiscovered ==
    /\ pc \in {"batch", "await", "sleep"} =>
          Range(assetUrls) \subseteq
              { Href(u) : u \in Resolvable(SelectSeq(page, LAMBDA el : ~CarriesNoAsset(el)), base) }
    /\ Rewrote =>
          \A k \in 1..Len(page) : CarriesNoAsset(page[k]) => dom[k] = page[k]

\* the page is one stylesheet link followed by one img with a src only
OneSheetOneImg ==
    /\ Len(page) = 2
    /\ page[1].tag = "link" /\ page[1].attrs["rel"] = "stylesheet"
    /\ page[2].tag = "img" /\ DOMAIN page[2].attrs = {"src"}

\* the absolute URL of a reference of the page
PageUrl(v) == Href(NewURL(v, base))

\* the job ended, the stylesheet of such a page was downloaded, it holds
\* one url(...) whose target was downloaded, and the image of the img
\* was not
SheetAndBrokenImg ==
    /\ result.kind = "manifest"
    /\ OneSheetOneImg
    /\ Mapped(urlToLocal, PageUrl(page[1].attrs["href"]))
    /\ Len(CssText(PageUrl(page[1].attrs["href"]))) = 1
    /\ \A u \in NestedRefs(PageUrl(page[1].attrs["href"])) : Mapped(urlToLocal, u)
    /\ ~Mapped(urlToLocal, PageUrl(page[2].attrs["src"]))

\* C18: for such a job the link points at the local stylesheet, the
\* url(...) of the stylesheet on disk is the path from the stylesheet's
\* directory to the local image, the img holds the placeholder sized
\* from its width and height, and the manifest counts two assets and
\* one failed download.
C18_EndToEnd ==
    SheetAndBrokenImg =>
        LET css   == PageUrl(page[1].attrs["href"])
            sheet == PathJoin(outDir, urlToLocal[css])
        IN /\ dom[1].attrs["href"] = urlToLocal[css]
           /\ sheet \in DOMAIN files
           /\ \A u \in NestedRefs(css) :
                 files[sheet].text =
                    << "url('" \o PathRelative(PathDirname(sheet),
                                              PathJoin(outDir, urlToLocal[u])) \o "')" >>
           /\ dom[2].attrs["src"] = PlaceholderFor(page[2])
           /\ result.assetsCount = 2
           /\ result.failedDownloads = 1

\* t.css and its a.png were downloaded, the image of the img was not
C18_Witness ==
    /\ SheetAndBrokenImg
    /\ dom[1].attrs["href"] = "assets/css/t.css"
    /\ files["/w/clones/h_1/assets/css/t.css"].text = << "url('../a.png')" >>
    /\ dom[2].attrs["src"] = "https://placehold.co/400x300/EEE/31343C?text=Failed+to+Load"
    /\ result.assetsCount = 2 /\ result.failedDownloads = 1

\* C19: every request of the job ends, so every call of cloneWebsite
\* eventually returns or raises.
C19_EveryJobEnds == <>(pc = "done")


(***************************************************************************)
(* C20: when run leaves its loop with no generateNodeApp result recorded,  *)
(* the deterministic fallback runs under the policies "last_resort" and    *)
(* "always" (cloneWebsite only if there is no clone result, then           *)
(* analyzeWebsite, then generateNodeApp, in this order) and does not run   *)
(* under "never".                                                          *)
(***************************************************************************)
FallbackTools == << "cloneWebsite", "analyzeWebsite", "generateNodeApp" >>

CallsInOrder(calls) ==
    \E keep \in SUBSET (1..Len(FallbackTools)) :
        /\ Len(calls) = Cardinality(keep)
        /\ \A k \in 1..Len(calls) :
             \E j \in keep :
                /\ calls[k] = FallbackTools[j]
                /\ Cardinality({ m \in keep : m < j }) = k - 1

LeavesLoopWithoutApp == opc = "fallback" /\ generateResult = "undefined"

FallbackRan ==
    /\ log' # << >>
    /\ CallsInOrder(Tail(log'))
    /\ (cloneResult = "undefined") <=> (\E k \in 1..Len(log') : log'[k] = "cloneWebsite")

C20_FallbackPolicy ==
    [][ LeavesLoopWithoutApp =>
          /\ policy \in { "last_resort", "always" } => FallbackRan
          /\ policy = "never" => log' = << >> ]_vars

\* the same under "always" and "never" only
C20_FallbackAlwaysNever ==
    [][ LeavesLoopWithoutApp =>
          /\ policy = "always" => FallbackRan
          /\ policy = "never" => log' = << >> ]_vars


(***************************************************************************)
(* C21: the steps of a job are strictly ordered.  The CSS phase starts     *)
(* only when every URL of every batch has its outcome and every success    *)
(* is in urlToLocal; the document is rewritten only when no entry is left  *)
(* to the CSS phase; index.html is written only after the document was     *)
(* rewritten; the manifest is returned last; and no request is in flight   *)
(* at a step that rewrites a stylesheet or the document.                   *)
(***************************************************************************)
\* every URL has its outcome, in order, and the successes are recorded
BatchesSettled ==
    /\ Len(downloadResults) = Len(assetUrls)
    /\ \A k \in 1..Len(assetUrls) :
          /\ downloadResults[k].url = assetUrls[k]
          /\ downloadResults[k].ok => assetUrls[k] \in DOMAIN urlToLocal

\* the step rewrites the text of a stylesheet (lines 184-201)
RewritesSheet == pc = "scan" /\ pc' = "css"

\* the step rewrites the document (lines 208-240)
RewritesDocument == pc = "css" /\ pc' = "write"

\* the step writes index.html (line 243)
WritesIndex == indexPath \notin DOMAIN files /\ indexPath \in DOMAIN files'

PhasesInOrder ==
    /\ AfterBatches => BatchesSettled
    /\ pc \in {"css", "scan"} => inFlight = {}
    /\ (pc = "write" \/ result.kind = "manifest") => cssTodo = << >> /\ inFlight = {}
    /\ result.kind = "manifest" => pc = "done" /\ indexPath \in DOMAIN files

StepsInOrder ==
    /\ (RewritesSheet \/ RewritesDocument) => inFlight = {} /\ inFlight' = {}
    /\ RewritesDocument => cssTodo = << >>
    /\ WritesIndex => pc = "write"
    /\ pc = "done" => result' = result

C21_StrictlyOrdered == [](PhasesInOrder) /\ [][StepsInOrder]_vars

\* a job that fetched a stylesheet, fetched a nested asset of it, rewrote the
\* stylesheet and the document, and returned its manifest
C21_Witness ==
    /\ result.kind = "manifest"
    /\ nestedResults # << >>
    /\ dom # page
    /\ \E p \in DOMAIN files : p # indexPath /\ files[p].text # CssText(files[p].from)


(***************************************************************************)
(* C22: CSS rewriting is idempotent.  When the resolver is applied again   *)
(* to a stylesheet whose url() targets all name existing local files, the  *)
(* text it computes is the text it read and the stylesheet is not written; *)
(* and in any pass an occurrence that cannot be resolved is left as it is. *)
(***************************************************************************)
\* the local file an occurrence of the stylesheet at fullPath names
TargetOf(occ, fullPath) == PathJoin(PathDirname(fullPath), AssetRef(occ))

\* the stylesheet read is one the resolver has rewritten, and every url()
\* target of it is a relative path, as the resolver writes it, to an
\* existing local file
AllTargetsLocal ==
    /\ cssRaw # CssText(originalUrl)
    /\ \A k \in 1..Len(cssRaw) :
          /\ cssRaw[k] = "url('" \o AssetRef(cssRaw[k]) \o "')"
          /\ ~StartsWith(AssetRef(cssRaw[k]), "/")
          /\ NewURL(AssetRef(cssRaw[k]), NoBase) = Invalid
          /\ TargetOf(cssRaw[k], cssFullPath) \in DOMAIN files

\* the occurrence is no data: URI and its URL is invalid or not in the map
Unresolved(occ) ==
    LET u == NewURL(AssetRef(occ), NewURL(originalUrl, NoBase))
    IN  ~IsDataRef(AssetRef(occ)) /\ (u = Invalid \/ ~Mapped(urlToLocal, Href(u)))

SecondPassChangesNothing ==
    (runs >= 1 /\ RewritesSheet /\ AllTargetsLocal) =>
        /\ Rewritten(cssRaw, originalUrl, cssFullPath, urlToLocal) = cssRaw
        /\ files' = files

UnresolvedStay ==
    RewritesSheet =>
        \A k \in 1..Len(cssRaw) :
            Unresolved(cssRaw[k]) => files'[cssFullPath].text[k] = cssRaw[k]

C22_CssRewriteIdempotent == [][SecondPassChangesNothing /\ UnresolvedStay]_vars

\* the same for stylesheets whose URL has no empty path segment
C22_IdempotentOnPlainPaths ==
    [][RewritesSheet =>
         /\ (\A k \in 1..Len(Split(originalUrl, "/")) :
                k > 3 => Split(originalUrl, "/")[k] # "") => SecondPassChangesNothing
         /\ UnresolvedStay]_vars

\* a second pass has rewritten a stylesheet whose targets are all local
C22_SecondPass ==
    /\ runs >= 1
    /\ pc = "scan"
    /\ matchIdx > Len(cssRaw)
    /\ cssRaw # << >>
    /\ AllTargetsLocal


(***************************************************************************)
(* C23: run stops at the first OUTPUT step it executes: no later step of   *)
(* that response is executed and the model is not asked again.  Whatever   *)
(* the model answers, it is called at most 15 times, and run then returns  *)
(* (every call of the model and of a tool returning).                      *)
(***************************************************************************)
\* run has left its loop
LeftLoop == opc \in {"fallback", "returned"}

\* the step executes an OUTPUT step
ExecutesOutput == opc = "steps" /\ plan # << >> /\ Head(plan) = "OUTPUT"

StopsAtOutput ==
    /\ ExecutesOutput => opc' = "fallback" /\ plan' = plan /\ safety' = safety
    /\ LeftLoop => opc' \in {"fallback", "returned"} /\ plan' = plan /\ safety' = safety

\* safety counts the calls of the model
AsksAtMostFifteen == safety <= 15

C23_StopsAtOutputAndEnds ==
    /\ [][StopsAtOutput]_vars
    /\ [](AsksAtMostFifteen)
    /\ <>(opc = "returned" \/ opc = "raised")

\* the fifteenth response began with OUTPUT and had a further step; run returned
C23_Witness ==
    /\ opc = "returned"
    /\ safety = maxIterations
    /\ Len(plan) > 1
    /\ Head(plan) = "OUTPUT"


(***************************************************************************)
(* C24: within one job each absolute asset URL is requested at most once:  *)
(* a URL whose batch fetch or nested fetch failed is not requested again   *)
(* by a stylesheet that references it, and so no URL counted in            *)
(* failedDownloads is a key of the final urlToLocal.                       *)
(***************************************************************************)
\* the requests for assets, in the order of sending
AssetRequests == Tail(requests)

RequestedOnce ==
    \A a, b \in 1..Len(AssetRequests) : a # b => AssetRequests[a] # AssetRequests[b]

FailedNotMapped ==
    result.kind = "manifest" =>
        \A k \in 1..Len(downloadResults) :
            ~downloadResults[k].ok => downloadResults[k].url \notin DOMAIN urlToLocal

C24_RequestedAtMostOnce ==
    /\ requests # << >> => RequestedOnce
    /\ FailedNotMapped

\* the batch phase alone requests each URL once, and a key of urlToLocal is
\* not requested again
C24_MappedNotRequestedAgain ==
    [][(requests' # requests /\ requests # << >>) =>
          \A k \in (Len(requests) + 1)..Len(requests') :
              requests'[k] \notin DOMAIN urlToLocal]_vars


(***************************************************************************)
(* C25: distinct asset URLs of one job never share a local file.  No two   *)
(* fetches in flight in the same batch write to the same path; a file      *)
(* written for one URL is never overwritten by the download of another     *)
(* URL (URLs that differ only in host, query string or fragment included); *)
(* so every value of urlToLocal names a file that holds the bytes fetched  *)
(* for its key.                                                            *)
(***************************************************************************)
\* the path downloadAsset writes a response for u to
LocalFile(u) == PathJoin(assetsDir, RelPath(NewURL(u, NoBase)))

BatchPathsDiffer ==
    pc = "await" =>
        \A u, v \in Range(Batch(assetUrls, i)) :
            (u # v /\ NewURL(u, NoBase) # Invalid /\ NewURL(v, NoBase) # Invalid)
                => LocalFile(u) # LocalFile(v)

EntriesHoldOwnBytes ==
    \A u \in DOMAIN urlToLocal :
        /\ PathJoin(outDir, urlToLocal[u]) \in DOMAIN files
        /\ files[PathJoin(outDir, urlToLocal[u])].from = u

NeverOverwrittenByAnother ==
    \A p \in DOMAIN files :
        (p # indexPath /\ p \in DOMAIN files') => files'[p].from = files[p].from

C25_NoSharedLocalFile ==
    /\ [](BatchPathsDiffer /\ EntriesHoldOwnBytes)
    /\ [][NeverOverwrittenByAnother]_vars

====
